---------------------------- MODULE Spec2Model ----------------------------
(***************************************************************************)
(* The kalliope SONOS neuron (src/sonos.py) as a state machine.            *)
(*                                                                         *)
(* The process-wide state is the class attributes Sonos.soco, Sonos.config *)
(* and Sonos.sonos plus the variables published through SettingEditor.     *)
(* Every step is one construction of the neuron, Sonos(action=..., ...):   *)
(* __init__ validates the parameters and dispatches to one handler, which  *)
(* runs to its end (the host runs one neuron action at a time).  The       *)
(* outside world (which players answer, how they are grouped, which call   *)
(* raises a communication error) is chosen anew in every step.             *)
(***************************************************************************)
EXTENDS Integers, Sequences, FiniteSets, TLC

(***************************************************************************)
(* Bounds of the model.                                                    *)
(***************************************************************************)
NumDevices == 3     \* players on the network
MaxMembers == 3     \* longest member list of a user-defined room
MaxRooms == 2       \* user-defined rooms in one 'rooms' setting
MaxFailures == 2    \* communication errors injected into one invocation
MaxFavorites == 2   \* favorites returned by one catalog fetch

(***************************************************************************)
(* Names.  A player is identified by its player_name; IpOf is its address. *)
(***************************************************************************)
DeviceNames == <<"Kitchen", "Living", "Bath", "Office", "Attic">>
Devices == {DeviceNames[i] : i \in 1..NumDevices}
DeviceIndex(d) == CHOOSE i \in 1..Len(DeviceNames) : DeviceNames[i] = d
IpOf(d) == <<192, 168, 1, DeviceIndex(d)>>

NoAction == "<no action>"      \* kwargs.get('action', None) is None
NoRoom == "<no room>"          \* no 'room' keyword / None
NoSoco == <<>>                 \* klass.soco is None
NoIp == <<>>                   \* no 'ipv4' keyword

ActionNames ==
    {"init", "play", "pause", "stop", "next", "previous", "mute", "unmute", "sync"}

(***************************************************************************)
(* str.lower() on the room names and favorite ids of the model.            *)
(***************************************************************************)
LowerTable ==
    <<  <<"Kitchen", "kitchen">>, <<"Living", "living">>, <<"Bath", "bath">>,
        <<"Office", "office">>, <<"Attic", "attic">>, <<"Down", "down">>,
        <<"Up", "up">> >>
Lower(s) ==
    IF \E i \in 1..Len(LowerTable) : LowerTable[i][1] = s
    THEN LowerTable[CHOOSE i \in 1..Len(LowerTable) : LowerTable[i][1] = s][2]
    ELSE s

(***************************************************************************)
(* ipaddress.IPv4Address(text): the text is a sequence of characters,      *)
(* split on ".", four decimal octets of at most three digits, each <= 255. *)
(***************************************************************************)
DigitChars == <<"0", "1", "2", "3", "4", "5", "6", "7", "8", "9">>
IsDigit(c) == \E i \in 1..10 : DigitChars[i] = c
DigitVal(c) == (CHOOSE i \in 1..10 : DigitChars[i] = c) - 1

RECURSIVE SplitDots(_, _, _)
SplitDots(s, i, cur) ==
    IF i > Len(s) THEN <<cur>>
    ELSE IF s[i] = "." THEN <<cur>> \o SplitDots(s, i + 1, <<>>)
    ELSE SplitDots(s, i + 1, Append(cur, s[i]))

RECURSIVE DecimalValue(_, _)
DecimalValue(o, n) ==
    IF n = 0 THEN 0 ELSE 10 * DecimalValue(o, n - 1) + DigitVal(o[n])

OctetOk(o) ==
    /\ Len(o) \in 1..3
    /\ \A i \in 1..Len(o) : IsDigit(o[i])
    /\ DecimalValue(o, Len(o)) <= 255

\* FALSE where IPv4Address raises AddressValueError (a ValueError)
IPv4Valid(text) ==
    LET parts == SplitDots(text, 1, <<>>)
    IN  Len(parts) = 4 /\ \A i \in 1..4 : OctetOk(parts[i])

IPv4Address(text) ==
    LET parts == SplitDots(text, 1, <<>>)
    IN  [i \in 1..4 |-> DecimalValue(parts[i], Len(parts[i]))]

Pow2(n) == IF n = 0 THEN 1 ELSE IF n = 1 THEN 2 ELSE IF n = 2 THEN 4
           ELSE IF n = 3 THEN 8 ELSE IF n = 4 THEN 16 ELSE IF n = 5 THEN 32
           ELSE IF n = 6 THEN 64 ELSE IF n = 7 THEN 128 ELSE 256

\* address in network base/plen, compared octet by octet
InNetwork(ip, base, plen) ==
    \A i \in 1..4 :
        LET have == plen - 8 * (i - 1)
            bits == IF have < 0 THEN 0 ELSE IF have > 8 THEN 8 ELSE have
        IN  ip[i] \div Pow2(8 - bits) = base[i] \div Pow2(8 - bits)

PrivateNetworks ==
    {   << <<0, 0, 0, 0>>, 8 >>,        << <<10, 0, 0, 0>>, 8 >>,
        << <<127, 0, 0, 0>>, 8 >>,      << <<169, 254, 0, 0>>, 16 >>,
        << <<172, 16, 0, 0>>, 12 >>,    << <<192, 0, 0, 0>>, 29 >>,
        << <<192, 0, 0, 170>>, 31 >>,   << <<192, 0, 2, 0>>, 24 >>,
        << <<192, 168, 0, 0>>, 16 >>,   << <<198, 18, 0, 0>>, 15 >>,
        << <<198, 51, 100, 0>>, 24 >>,  << <<203, 0, 113, 0>>, 24 >>,
        << <<240, 0, 0, 0>>, 4 >>,      << <<255, 255, 255, 255>>, 32 >> }

IsPrivate(ip) == \E n \in PrivateNetworks : InNetwork(ip, n[1], n[2])

\* a variant of is_global that tests is_private the wrong way round
IsGlobalInverted(ip) == IsPrivate(ip)

IsGlobal(ip) == ~InNetwork(ip, <<100, 64, 0, 0>>, 10) /\ ~IsPrivate(ip)

(***************************************************************************)
(* Sonos._is_parameters_ok: "True", "False", or the exception it raises.   *)
(***************************************************************************)
IPv4Check(ipv4) ==
    IF ~IPv4Valid(ipv4) THEN "InvalidParameterException"
    ELSE IF IsGlobal(IPv4Address(ipv4)) THEN "InvalidParameterException"
    ELSE "True"

IsParametersOk(action, room, ipv4, handle) ==
    IF action = NoAction THEN "MissingParameterException"
    ELSE IF action \notin ActionNames THEN "InvalidParameterException"
    ELSE IF action = "init"
         THEN IF room = NoRoom THEN "InvalidParameterException"
              ELSE IF ipv4 # NoIp THEN IPv4Check(ipv4)
              ELSE "True"
         ELSE IF handle = NoSoco THEN "False" ELSE "True"


(***************************************************************************)
(* Calls into the SoCo library, in the order the handler makes them.       *)
(* dev is the player called ("<soco>": the handle klass.soco), raised      *)
(* whether the call raised ConnectTimeout, TimeoutError or SoCoException.  *)
(***************************************************************************)
Handle == "<soco>"
Call(op, dev) ==
    [op |-> op, dev |-> dev, arg |-> "", idx |-> -1, raised |-> FALSE]
CallArg(op, dev, arg) ==
    [op |-> op, dev |-> dev, arg |-> arg, idx |-> -1, raised |-> FALSE]
CallIdx(op, dev, idx) ==
    [op |-> op, dev |-> dev, arg |-> "", idx |-> idx, raised |-> FALSE]
Raised(c) == [c EXCEPT !.raised = TRUE]
RaisedIf(c, b) == IF b THEN Raised(c) ELSE c

EmptyRooms == [n \in {} |-> <<>>]

(***************************************************************************)
(* Sonos.do_sync, lines 232-244: the merge of the user-defined rooms.      *)
(* raised: the loop was left by an exception (caught at line 243).         *)
(***************************************************************************)
\* a variant of lines 236-240 that appends a member without looking it up
RECURSIVE MergeMembersUnchecked(_, _, _, _)
MergeMembersUnchecked(members, j, zones, acc) ==
    IF j > Len(members) THEN [list |-> acc, raised |-> FALSE]
    ELSE MergeMembersUnchecked(members, j + 1, zones, Append(acc, members[j]))

RECURSIVE MergeMembers(_, _, _, _)
MergeMembers(members, j, zones, acc) ==
    IF j > Len(members) THEN [list |-> acc, raised |-> FALSE]
    ELSE IF members[j] \in zones
         THEN MergeMembers(members, j + 1, zones, Append(acc, members[j]))
         \* line 240: the warning's argument member.label, member a str,
         \* raises AttributeError
         ELSE [list |-> acc, raised |-> TRUE]

RECURSIVE MergeRooms(_, _, _, _)
RECURSIVE AddRoom(_, _, _, _, _)
\* lines 235-240: the room is created, then filled with the members m.list
AddRoom(cfg, i, zones, rooms, m) ==
    IF m.raised
    THEN [rooms |-> (cfg[i][1] :> m.list) @@ rooms, raised |-> TRUE]
    ELSE MergeRooms(cfg, i + 1, zones, (cfg[i][1] :> m.list) @@ rooms)
MergeRooms(cfg, i, zones, rooms) ==
    IF i > Len(cfg) THEN [rooms |-> rooms, raised |-> FALSE]
    ELSE IF cfg[i][1] \notin DOMAIN rooms
    THEN AddRoom(cfg, i, zones, rooms, MergeMembers(cfg[i][2], 1, zones, <<>>))
    \* line 242: the warning's argument 'room' is no name of do_sync:
    \* NameError
    ELSE [rooms |-> rooms, raised |-> TRUE]

\* lines 228-230: one room per discovered zone, holding just that player
AutoRooms(zones) == [n \in zones |-> <<n>>]

\* lines 246, 256: {k.lower(): k for k in table}
PublishRooms(rooms) ==
    [k \in {Lower(n) : n \in DOMAIN rooms} |->
        CHOOSE n \in DOMAIN rooms : Lower(n) = k]

\* lines 250-251: favorites[favorite.title] = favorite, in catalog order; a
\* title seen again keeps its place and takes the later reference
RECURSIVE FavoritesTable(_, _, _)
FavoritesTable(catalog, i, acc) ==
    IF i > Len(catalog) THEN acc
    ELSE LET f == catalog[i]
             at == {k \in 1..Len(acc) : acc[k].title = f.title}
         IN  IF at = {}
             THEN FavoritesTable(catalog, i + 1, Append(acc, f))
             ELSE FavoritesTable(catalog, i + 1,
                                 [acc EXCEPT ![CHOOSE k \in at : TRUE] = f])

\* str.lower() on a title, a sequence of characters
UpperChars == <<"A", "B", "C", "D", "F", "J", "M", "R">>
LowerChars == <<"a", "b", "c", "d", "f", "j", "m", "r">>
LowerChar(c) ==
    IF \E i \in 1..Len(UpperChars) : UpperChars[i] = c
    THEN LowerChars[CHOOSE i \in 1..Len(UpperChars) : UpperChars[i] = c]
    ELSE c
LowerTitle(t) == [i \in 1..Len(t) |-> LowerChar(t[i])]

\* a later title with the same lower-case key replaces the earlier one
PublishFavorites(favs) ==
    [k \in {LowerTitle(favs[i].title) : i \in 1..Len(favs)} |->
        LET at == {i \in 1..Len(favs) : LowerTitle(favs[i].title) = k}
        IN  favs[CHOOSE i \in at : \A j \in at : j <= i].title]

(***************************************************************************)
(* Sonos.do_sync.  cfg: klass.config (cfg.set = FALSE: no 'rooms' key, the *)
(* KeyError is caught at line 243).  env: what the network answers.        *)
(*   env.enum    "ok" | "timeouts" (players skipped, line 223) |           *)
(*               "error" (enumeration raised, line 225)                    *)
(*   env.zones   the players recorded in the zone table                    *)
(*   env.favs    "ok" | "error" (line 252), env.catalog the favorites      *)
(***************************************************************************)
Synced(env, merged, favs) ==
    [zones |-> env.zones,
     rooms |-> merged.rooms,
     favorites |-> favs,
     pubRooms |-> PublishRooms(merged.rooms),
     pubFavs |-> PublishFavorites(favs),
     calls |-> <<RaisedIf(Call("visible_zones", Handle), env.enum = "error"),
                 RaisedIf(Call("get_sonos_favorites", Handle), env.favs = "error")>>,
     warnings |-> (IF env.enum = "timeouts" THEN {"zone timeout"} ELSE {})
                  \cup (IF env.enum = "error" THEN {"sonos offline"} ELSE {})
                  \cup (IF merged.raised THEN {"merge error"} ELSE {})
                  \cup (IF env.favs = "error" THEN {"favorites error"} ELSE {})]

DoSync(cfg, env) ==
    Synced(env,
           IF cfg.set
           THEN MergeRooms(cfg.rooms, 1, env.zones, AutoRooms(env.zones))
           ELSE [rooms |-> AutoRooms(env.zones), raised |-> TRUE],
           IF env.favs = "ok" THEN FavoritesTable(env.catalog, 1, <<>>) ELSE <<>>)

(***************************************************************************)
(* difflib.SequenceMatcher(None, a, b).ratio() on sequences of characters  *)
(* (no junk; the autojunk heuristic needs 200 characters).  Positions are  *)
(* 1-based, ranges half-open: alo..ahi-1.                                  *)
(***************************************************************************)
RECURSIVE MatchRun(_, _, _, _, _, _)
MatchRun(a, b, i, j, ahi, bhi) ==
    IF i >= ahi \/ j >= bhi THEN 0
    ELSE IF a[i] # b[j] THEN 0
    ELSE 1 + MatchRun(a, b, i + 1, j + 1, ahi, bhi)

\* find_longest_match: the longest matching block; of those the earliest in
\* a, then in b
BlockAt(a, b, i, j, ahi, bhi) ==
    [i |-> i, j |-> j, k |-> MatchRun(a, b, i, j, ahi, bhi)]
Blocks(a, b, alo, ahi, blo, bhi) ==
    {BlockAt(a, b, c[1], c[2], ahi, bhi) : c \in (alo..(ahi - 1)) \X (blo..(bhi - 1))}
Before(x, y) ==
    \/ x.k > y.k
    \/ x.k = y.k /\ x.i < y.i
    \/ x.k = y.k /\ x.i = y.i /\ x.j <= y.j
Longest(blocks, alo, blo) ==
    IF blocks = {} THEN [i |-> alo, j |-> blo, k |-> 0]
    ELSE CHOOSE x \in blocks : \A y \in blocks : Before(x, y)
FindLongestMatch(a, b, alo, ahi, blo, bhi) ==
    Longest(Blocks(a, b, alo, ahi, blo, bhi), alo, blo)

\* the summed sizes of get_matching_blocks(): the longest block m of the
\* range, then the ranges left and right of it
RECURSIVE MatchingCount(_, _, _, _, _, _)
RECURSIVE CountAround(_, _, _, _, _, _, _)
CountAround(a, b, alo, ahi, blo, bhi, m) ==
    IF m.k = 0 THEN 0
    ELSE m.k
         + (IF alo < m.i /\ blo < m.j
            THEN MatchingCount(a, b, alo, m.i, blo, m.j) ELSE 0)
         + (IF m.i + m.k < ahi /\ m.j + m.k < bhi
            THEN MatchingCount(a, b, m.i + m.k, ahi, m.j + m.k, bhi) ELSE 0)
MatchingCount(a, b, alo, ahi, blo, bhi) ==
    CountAround(a, b, alo, ahi, blo, bhi,
                FindLongestMatch(a, b, alo, ahi, blo, bhi))

\* 2.0 * matches / length as the fraction <<2 * matches, length>>; 1.0 for
\* two empty sequences
Ratio(a, b) ==
    IF Len(a) + Len(b) = 0 THEN <<1, 1>>
    ELSE <<2 * MatchingCount(a, b, 1, Len(a) + 1, 1, Len(b) + 1), Len(a) + Len(b)>>

\* float comparison of two ratios
RatioEq(r, q) == r[1] * q[2] = q[1] * r[2]
RatioLess(r, q) == r[1] * q[2] < q[1] * r[2]

(***************************************************************************)
(* Sonos.do_play, lines 152-157: the favorite played for an item.          *)
(***************************************************************************)
\* lines 153-155: results[ratio] = favorite, over the titles in table
\* order; an equal ratio is the same key and takes the later title
Score(item, fav) == [ratio |-> Ratio(item, fav.title), title |-> fav.title]
SameKey(acc, e) == {k \in 1..Len(acc) : RatioEq(acc[k].ratio, e.ratio)}
PutScore(acc, e) ==
    IF SameKey(acc, e) = {} THEN Append(acc, e)
    ELSE [acc EXCEPT ![CHOOSE k \in SameKey(acc, e) : TRUE] = e]
RECURSIVE ScoreMap(_, _, _, _)
ScoreMap(item, favs, i, acc) ==
    IF i > Len(favs) THEN acc
    ELSE ScoreMap(item, favs, i + 1, PutScore(acc, Score(item, favs[i])))

\* a variant of line 156 without reverse=True
LowestScore(results) ==
    results[CHOOSE k \in 1..Len(results) :
                \A l \in 1..Len(results) :
                    ~RatioLess(results[l].ratio, results[k].ratio)]

\* line 156: sorted(results.keys(), reverse=True)[0]
HighestScore(results) ==
    results[CHOOSE k \in 1..Len(results) :
                \A l \in 1..Len(results) :
                    ~RatioLess(results[k].ratio, results[l].ratio)]

\* lines 152-157, for a non-empty favorites table
BestMatch(item, favs) == HighestScore(ScoreMap(item, favs, 1, <<>>)).title

\* line 160: klass.sonos['favorites'][result]
FavoriteRef(favs, title) ==
    favs[CHOOSE i \in 1..Len(favs) : favs[i].title = title].ref

(***************************************************************************)
(* The players' grouping, kept by the SONOS system: g[d] is the            *)
(* coordinator of d's group.  rank orders the players; the highest ranked  *)
(* player left behind by a leaving coordinator takes the group over.       *)
(***************************************************************************)
Groupings == {g \in [Devices -> Devices] : \A d \in Devices : g[g[d]] = g[d]}

Rankings ==
    {r \in [1..Cardinality(Devices) -> Devices] :
        \A i, j \in DOMAIN r : r[i] = r[j] => i = j}

Leave(g, d, rank) ==
    LET left == {x \in Devices \ {d} : g[x] = d}
        heir == rank[CHOOSE i \in DOMAIN rank :
                        /\ rank[i] \in left
                        /\ \A j \in DOMAIN rank : rank[j] \in left => i <= j]
    IN  [x \in Devices |->
            IF x = d THEN d
            ELSE IF x \in left THEN heir
            ELSE g[x]]

\* player.unjoin(): the player becomes a group of its own
Unjoin(g, d, rank) == Leave(g, d, rank)

\* player.join(master): the player moves into the master's group
Join(g, d, master, rank) ==
    LET h == Leave(g, d, rank)
    IN  [h EXCEPT ![d] = h[master]]

(***************************************************************************)
(* Sonos.do_play, lines 142-150: the members after the first are moved     *)
(* into the coordinator's group.  plan[p] names the call on list[p] that   *)
(* raises ConnectTimeout, TimeoutError or SoCoException ("none": no call). *)
(***************************************************************************)
FailureKinds == {"none", "group", "unjoin", "join"}

\* acc: the calls made so far, the warnings printed, the grouping reached
Joined(acc, calls, warned, g) ==
    [calls |-> acc.calls \o calls,
     warnings |-> IF warned THEN acc.warnings \cup {"communication failure"}
                  ELSE acc.warnings,
     group |-> g]

\* a variant of lines 143-150 that unjoins every member, coordinator of its
\* group or not
JoinMemberAlways(player, soco, rank, fail, acc) ==
    IF fail = "group"
    THEN Joined(acc, <<Raised(Call("group.coordinator", player))>>, TRUE, acc.group)
    ELSE IF fail = "unjoin"
    THEN Joined(acc, <<CallArg("group.coordinator", player, acc.group[player]),
                       Raised(Call("unjoin", player))>>,
                TRUE, acc.group)
    ELSE IF fail = "join"
    THEN Joined(acc, <<CallArg("group.coordinator", player, acc.group[player]),
                       Call("unjoin", player),
                       Raised(CallArg("join", player, soco))>>,
                TRUE, Unjoin(acc.group, player, rank))
    ELSE Joined(acc, <<CallArg("group.coordinator", player, acc.group[player]),
                       Call("unjoin", player),
                       CallArg("join", player, soco)>>,
                FALSE, Join(Unjoin(acc.group, player, rank), player, soco, rank))

\* lines 143-150 for one member; fail: the call that raises
JoinMember(player, soco, rank, fail, acc) ==
    IF fail = "group"
    THEN Joined(acc, <<Raised(Call("group.coordinator", player))>>, TRUE, acc.group)
    ELSE IF acc.group[player] # player
    THEN IF fail = "unjoin"
         THEN Joined(acc, <<CallArg("group.coordinator", player, acc.group[player]),
                            Raised(Call("unjoin", player))>>,
                     TRUE, acc.group)
         ELSE IF fail = "join"
         THEN Joined(acc, <<CallArg("group.coordinator", player, acc.group[player]),
                            Call("unjoin", player),
                            Raised(CallArg("join", player, soco))>>,
                     TRUE, Unjoin(acc.group, player, rank))
         ELSE Joined(acc, <<CallArg("group.coordinator", player, acc.group[player]),
                            Call("unjoin", player),
                            CallArg("join", player, soco)>>,
                     FALSE, Join(Unjoin(acc.group, player, rank), player, soco, rank))
    ELSE IF fail = "join"
    THEN Joined(acc, <<CallArg("group.coordinator", player, acc.group[player]),
                       Raised(CallArg("join", player, soco))>>,
                TRUE, acc.group)
    ELSE Joined(acc, <<CallArg("group.coordinator", player, acc.group[player]),
                       CallArg("join", player, soco)>>,
                FALSE, Join(acc.group, player, soco, rank))

\* lines 142-150: the loop over list[2..]
RECURSIVE JoinMembers(_, _, _, _, _)
JoinMembers(list, p, rank, plan, acc) ==
    IF p > Len(list) THEN acc
    ELSE JoinMembers(list, p + 1, rank, plan,
                     JoinMember(list[p], list[1], rank, plan[p], acc))

\* lines 159-161; queueFail: the number of the command that raises (0: none)
QueueCalls(soco, ref) ==
    <<Call("clear_queue", soco), CallArg("add_to_queue", soco, ref),
      CallIdx("play_from_queue", soco, 0)>>
QueueCommands(all, queueFail) ==
    IF queueFail \in 1..3
    THEN [outcome |-> "CommunicationError",
          calls |-> SubSeq(all, 1, queueFail - 1) \o <<Raised(all[queueFail])>>]
    ELSE [outcome |-> "ok", calls |-> all]

\* lines 151-164: the playback commands on the coordinator
PlayCommands(soco, hasItem, item, favs, queueFail) ==
    IF hasItem
    THEN IF Len(favs) = 0
         \* line 156: sorted(...)[0] of an empty list
         THEN [outcome |-> "IndexError", calls |-> <<>>]
         ELSE QueueCommands(QueueCalls(soco, FavoriteRef(favs, BestMatch(item, favs))),
                            queueFail)
    \* line 163: the debug message reads 'result', assigned only with an
    \* item: UnboundLocalError, before soco.play() at line 164
    ELSE [outcome |-> "UnboundLocalError", calls |-> <<>>]

(***************************************************************************)
(* Sonos.do_play.  cfg, rooms, favs: klass.config and klass.sonos; room:   *)
(* the 'room' keyword (NoRoom: none); env: the grouping, the ranking and   *)
(* the calls that raise.                                                   *)
(***************************************************************************)
Quiet(outcome) == [outcome |-> outcome, calls |-> <<>>, warnings |-> {}]

\* kwargs.get('room', klass.config['room']): the default is read first
ResolveRoom(cfg, room) ==
    IF ~cfg.set THEN "<KeyError>"
    ELSE IF room = NoRoom THEN cfg.room ELSE room

Played(joined, cmds) ==
    [outcome |-> cmds.outcome, calls |-> joined.calls \o cmds.calls,
     warnings |-> joined.warnings]

\* lines 139-164 on the room's list
PlayOn(list, favs, hasItem, item, env) ==
    IF Len(list) = 0 THEN Quiet("IndexError")
    ELSE IF env.coordFail
    \* line 141 is outside the try of lines 143-150
    THEN [outcome |-> "CommunicationError",
          calls |-> <<Raised(Call("unjoin", list[1]))>>, warnings |-> {}]
    ELSE Played(JoinMembers(list, 2, env.rank, env.plan,
                            [calls |-> <<Call("unjoin", list[1])>>,
                             warnings |-> {},
                             group |-> Unjoin(env.group, list[1], env.rank)]),
                PlayCommands(list[1], hasItem, item, favs, env.queueFail))

PlayIn(r, rooms, favs, hasItem, item, env) ==
    IF r = "<KeyError>" THEN Quiet("KeyError")
    ELSE IF r \notin DOMAIN rooms THEN Quiet("InvalidParameterException")
    ELSE PlayOn(rooms[r], favs, hasItem, item, env)

DoPlay(cfg, rooms, favs, room, hasItem, item, env) ==
    PlayIn(ResolveRoom(cfg, room), rooms, favs, hasItem, item, env)

(***************************************************************************)
(* Sonos.do_pause, do_next, do_prev, do_mute, do_unmute: one command on    *)
(* the first player of the room.  fails: the command raises.               *)
(***************************************************************************)
TransportCommand(action) ==
    IF action \in {"pause", "stop"} THEN "pause"
    ELSE IF action = "next" THEN "next"
    ELSE IF action = "previous" THEN "previous"
    ELSE IF action = "mute" THEN "mute=True"
    ELSE "mute=False"

TransportIn(r, rooms, action, fails) ==
    IF r = "<KeyError>" THEN Quiet("KeyError")
    ELSE IF r \notin DOMAIN rooms THEN Quiet("InvalidParameterException")
    ELSE IF Len(rooms[r]) = 0 THEN Quiet("IndexError")
    ELSE [outcome |-> IF fails THEN "CommunicationError" ELSE "ok",
          calls |-> <<RaisedIf(Call(TransportCommand(action), rooms[r][1]),
                               fails)>>,
          warnings |-> {}]

DoTransport(cfg, rooms, action, room, fails) ==
    TransportIn(ResolveRoom(cfg, room), rooms, action, fails)

(***************************************************************************)
(* Sonos.do_init.  The 'rooms' keyword is a sequence of <<name, value>>    *)
(* (a dict in insertion order), a value being a list of member names, one  *)
(* member name, or something else.                                         *)
(***************************************************************************)
ListValue(l) == [kind |-> "list", list |-> l, str |-> ""]
StrValue(m) == [kind |-> "str", list |-> <<>>, str |-> m]
OtherValue == [kind |-> "other", list |-> <<>>, str |-> ""]

\* lines 119-125
RECURSIVE ParseRooms(_, _, _)
ParseRooms(kw, i, acc) ==
    IF i > Len(kw) THEN acc
    ELSE LET name == kw[i][1]
             v == kw[i][2]
         IN  IF v.kind = "list"
             THEN ParseRooms(kw, i + 1,
                             [acc EXCEPT !.rooms = Append(@, <<name, v.list>>)])
             ELSE IF v.kind = "str"
             THEN ParseRooms(kw, i + 1,
                             [acc EXCEPT !.rooms = Append(@, <<name, <<v.str>>>>)])
             ELSE ParseRooms(kw, i + 1,
                             [acc EXCEPT !.warnings = @ \cup {"rooms type"}])

\* lines 100-112: the handle and whether the handler raises SonosException.
\* env.found: discovery finds the player named room; env.visible: what
\* is_visible answers, "yes" | "no" | "error"
Connect(room, ipv4, env) ==
    IF ipv4 = NoIp
    THEN LET found == IF env.found /\ room \in Devices THEN IpOf(room) ELSE NoSoco
         IN  [soco |-> found,
              calls |-> <<Call("by_name", Handle)>>,
              raises |-> found = NoSoco]
    ELSE [soco |-> IPv4Address(ipv4),
          calls |-> <<RaisedIf(Call("is_visible", Handle), env.visible = "error")>>,
          raises |-> env.visible # "yes"]

\* cur: the process-wide state [soco, config, zones, rooms, favorites,
\* pubRooms, pubFavs]; the result adds outcome, calls, warnings, synced
Initialized(cur, c, cfg, parsed, s) ==
    IF c.raises
    THEN [state |-> [cur EXCEPT !.soco = c.soco],
          outcome |-> "SonosException", calls |-> c.calls,
          warnings |-> {}, synced |-> FALSE]
    ELSE [state |-> [soco |-> c.soco, config |-> cfg, zones |-> s.zones,
                     rooms |-> s.rooms, favorites |-> s.favorites,
                     pubRooms |-> s.pubRooms, pubFavs |-> s.pubFavs],
          \* lines 127-128
          outcome |-> IF cfg.room \in DOMAIN s.rooms THEN "ok"
                      ELSE "InvalidParameterException",
          calls |-> c.calls \o s.calls,
          warnings |-> parsed.warnings \cup s.warnings,
          synced |-> TRUE]

Configured(cur, c, room, parsed, env) ==
    Initialized(cur, c, [set |-> TRUE, room |-> room, rooms |-> parsed.rooms], parsed,
                DoSync([set |-> TRUE, room |-> room, rooms |-> parsed.rooms], env.sync))

DoInit(cur, room, ipv4, kw, env) ==
    Configured(cur, Connect(room, ipv4, env), room,
               ParseRooms(kw, 1, [rooms |-> <<>>, warnings |-> {}]), env)

(***************************************************************************)
(* The state: the class attributes, the published variables, and the       *)
(* neuron instance of the invocation under way: what it was given and what *)
(* it did.  The host constructs one instance per action and drops it when  *)
(* the constructor has returned or raised.                                 *)
(***************************************************************************)
VARIABLES
    soco,        \* klass.soco: NoSoco or the address of the handle
    config,      \* klass.config: [set, room, rooms]; set = FALSE: empty dict
    zones,       \* klass.sonos['zones']: the names of the recorded players
    rooms,       \* klass.sonos['rooms']: room name -> sequence of players
    favorites,   \* klass.sonos['favorites']: sequence of [title, ref]
    pubRooms,    \* the published variable sonos_rooms
    pubFavs,     \* the published variable sonos_favorites
    last,        \* the instance: its parameters, outcome and library calls
    initOk       \* some 'init' has completed without raising

vars == <<soco, config, zones, rooms, favorites, pubRooms, pubFavs, last, initOk>>
tables == <<soco, config, zones, rooms, favorites, pubRooms, pubFavs>>

Current ==
    [soco |-> soco, config |-> config, zones |-> zones, rooms |-> rooms,
     favorites |-> favorites, pubRooms |-> pubRooms, pubFavs |-> pubFavs]

Become(st) ==
    /\ soco' = st.soco
    /\ config' = st.config
    /\ zones' = st.zones
    /\ rooms' = st.rooms
    /\ favorites' = st.favorites
    /\ pubRooms' = st.pubRooms
    /\ pubFavs' = st.pubFavs

NoItem == <<>>

Invocation(action, room, ipv4, hasItem, item, ran, synced, outcome, calls, warnings) ==
    [action |-> action, room |-> room, ipv4 |-> ipv4, hasItem |-> hasItem,
     item |-> item, ran |-> ran, synced |-> synced, outcome |-> outcome,
     calls |-> calls, warnings |-> warnings]

NoInstance ==
    Invocation(NoAction, NoRoom, NoIp, FALSE, NoItem, FALSE, FALSE, "none", <<>>, {})

\* lines 49-55: the class attributes before the first construction
Init ==
    /\ soco = NoSoco
    /\ config = [set |-> FALSE, room |-> NoRoom, rooms |-> <<>>]
    /\ zones = {}
    /\ rooms = EmptyRooms
    /\ favorites = <<>>
    /\ pubRooms = EmptyRooms
    /\ pubFavs = EmptyRooms
    /\ last = NoInstance
    /\ initOk = FALSE

\* lines 59-60: an empty 'room' is dropped before the handler runs
GivenRoom(room) == IF room = "" THEN NoRoom ELSE room

(***************************************************************************)
(* Sonos.__init__, lines 58-63, one action per outcome of the dispatch.    *)
(***************************************************************************)
\* _is_parameters_ok raises, or returns False and line 63 raises
Refuse(action, room, ipv4) ==
    LET ok == IsParametersOk(action, room, ipv4, soco)
    IN  /\ last = NoInstance
        /\ ok # "True"
        /\ last' = Invocation(action, room, ipv4, FALSE, NoItem, FALSE, FALSE,
                              IF ok = "False" THEN "SonosException" ELSE ok,
                              <<>>,
                              IF ok = "False" THEN {"uninitialized neuron"} ELSE {})
        /\ UNCHANGED <<tables, initOk>>

Ran(action, room, hasItem, item, r) ==
    Invocation(action, room, NoIp, hasItem, item, TRUE, FALSE,
               r.outcome, r.calls, r.warnings)

InitStep(room, ipv4, r) ==
    /\ Become(r.state)
    /\ last' = Invocation("init", room, ipv4, FALSE, NoItem, TRUE, r.synced,
                          r.outcome, r.calls, r.warnings)
    /\ initOk' = (initOk \/ r.outcome = "ok")

InvokeInit(room, ipv4, kw, env) ==
    /\ last = NoInstance
    /\ IsParametersOk("init", room, ipv4, soco) = "True"
    /\ InitStep(room, ipv4, DoInit(Current, GivenRoom(room), ipv4, kw, env))

SyncStep(s) ==
    /\ zones' = s.zones
    /\ rooms' = s.rooms
    /\ favorites' = s.favorites
    /\ pubRooms' = s.pubRooms
    /\ pubFavs' = s.pubFavs
    /\ last' = Invocation("sync", NoRoom, NoIp, FALSE, NoItem, TRUE, TRUE,
                          "ok", s.calls, s.warnings)

InvokeSync(env) ==
    /\ last = NoInstance
    /\ IsParametersOk("sync", NoRoom, NoIp, soco) = "True"
    /\ SyncStep(DoSync(config, env))
    /\ UNCHANGED <<soco, config, initOk>>

InvokePlay(room, hasItem, item, env) ==
    /\ last = NoInstance
    /\ IsParametersOk("play", room, NoIp, soco) = "True"
    /\ last' = Ran("play", room, hasItem, item,
                   DoPlay(config, rooms, favorites, GivenRoom(room), hasItem, item, env))
    /\ UNCHANGED <<tables, initOk>>

InvokeTransport(action, room, fails) ==
    /\ last = NoInstance
    /\ IsParametersOk(action, room, NoIp, soco) = "True"
    /\ last' = Ran(action, room, FALSE, NoItem,
                   DoTransport(config, rooms, action, GivenRoom(room), fails))
    /\ UNCHANGED <<tables, initOk>>

\* the host drops the instance
Discard ==
    /\ last # NoInstance
    /\ last' = NoInstance
    /\ UNCHANGED <<tables, initOk>>

(***************************************************************************)
(* The parameters the host passes and the answers of the network.          *)
(***************************************************************************)
IpKitchenText == <<"1", "9", "2", ".", "1", "6", "8", ".", "1", ".", "1">>
IpPublicText == <<"8", ".", "8", ".", "8", ".", "8">>
IpOctetText == <<"2", "5", "6", ".", "1", ".", "1", ".", "1">>
IpShortText == <<"1", "0", ".", "0", ".", "0">>
IpLetterText == <<"1", "0", ".", "0", ".", "0", ".", "x">>
Ipv4Inputs == {IpKitchenText, IpPublicText, IpOctetText, IpShortText, IpLetterText}

ActionInputs == ActionNames \cup {NoAction, "reboot"}
TransportNames == {"pause", "stop", "next", "previous", "mute", "unmute"}
RoomInputs == {NoRoom, "", "Kitchen", "Down"}

TitleJazzRadio == <<"J", "a", "z", "z", " ", "R", "a", "d", "i", "o">>
TitleJazzFM == <<"J", "a", "z", "z", " ", "F", "M">>
TitleAB == <<"a", "b">>
TitleBA == <<"b", "a">>
ItemJazzRadio == <<"j", "a", "z", "z", " ", "r", "a", "d", "i", "o">>
ItemA == <<"a">>
ItemABA == <<"a", "b", "a">>
ItemC == <<"c">>

Favorite(title, ref) == [title |-> title, ref |-> ref]
FavoritePool ==
    <<Favorite(TitleJazzRadio, "ref1"), Favorite(TitleJazzFM, "ref2"),
      Favorite(TitleAB, "ref3"), Favorite(TitleBA, "ref4"),
      Favorite(TitleAB, "ref5")>>

Min(a, b) == IF a < b THEN a ELSE b

\* catalogs: the first favorite of the pool or none / up to MaxFavorites
\* favorites of the pool in any order
FewCatalogs == {SubSeq(FavoritePool, 1, n) : n \in 0..Min(1, MaxFavorites)}
AllCatalogs ==
    UNION { {[i \in 1..n |-> FavoritePool[c[i]]] :
                c \in {d \in [1..n -> 1..Len(FavoritePool)] :
                          \A i, j \in 1..n : d[i] = d[j] => i = j}}
            : n \in 0..MaxFavorites }

Items(texts) ==
    {[given |-> FALSE, text |-> NoItem]} \cup {[given |-> TRUE, text |-> t] : t \in texts}
FewItems == Items({ItemJazzRadio})
AllItems == Items({ItemJazzRadio, ItemA, ItemABA, ItemC, <<>>})

\* member lists: the first n players
Members(n) == SubSeq(DeviceNames, 1, n)
MemberLists == {Members(n) : n \in 0..Min(MaxMembers, NumDevices)}
MemberValues ==
    {ListValue(l) : l \in MemberLists} \cup {StrValue("Living"), OtherValue}

\* 'rooms' settings: up to MaxRooms rooms named Down, Kitchen (the name of
\* a player) and Up
UserRoomNames == <<"Down", "Kitchen", "Up">>
RoomEntries ==
    {<<"Down", v>> : v \in MemberValues}
        \cup {<<"Kitchen", ListValue(<<"Living">>)>>, <<"Up", ListValue(<<"Bath">>)>>}
AllSettings ==
    UNION { {kw \in [1..n -> RoomEntries] :
                /\ \A i \in 1..n :
                      \E k \in 1..Min(MaxRooms, 3) : kw[i][1] = UserRoomNames[k]
                /\ \A i, j \in 1..n : kw[i][1] = kw[j][1] => i = j}
            : n \in 0..MaxRooms }
DownSettings == {<<>>} \cup {<< <<"Down", ListValue(l)>> >> : l \in MemberLists}
FewSettings ==
    {<<>>, << <<"Down", ListValue(<<>>)>> >>,
     << <<"Down", ListValue(Members(Min(2, MaxMembers)))>> >>}

\* what do_sync meets: the players recorded, how the enumeration ended, the
\* favorites
SyncEnv(z, enum, favs, catalog) ==
    [zones |-> z, enum |-> enum, favs |-> favs, catalog |-> catalog]
SyncEnvs(zoneSets, enums, catalogs) ==
    {SyncEnv(z, en, "ok", c) : z \in zoneSets, en \in enums, c \in catalogs}
        \cup (IF MaxFailures > 0
              THEN {SyncEnv({}, "error", "ok", c) : c \in catalogs}
                   \cup {SyncEnv(z, "ok", "error", <<>>) : z \in zoneSets}
              ELSE {})
        \cup (IF MaxFailures > 1 THEN {SyncEnv({}, "error", "error", <<>>)} ELSE {})
FewZoneSets == {{"Kitchen"}, {"Kitchen", "Living"}}
FewSyncEnvs == SyncEnvs(FewZoneSets, {"ok"}, {SubSeq(FavoritePool, 1, 1)})
AllSyncEnvs == SyncEnvs(SUBSET Devices, {"ok", "timeouts"}, {SubSeq(FavoritePool, 1, 1)})
ZoneSyncEnvs == SyncEnvs(SUBSET Devices, {"ok"}, FewCatalogs)
CatalogSyncEnvs == SyncEnvs(FewZoneSets, {"ok"}, AllCatalogs)

\* what do_init meets before the sync: discovery by name finds the player
\* or not; is_visible of the player at the address answers or raises
InitEnv(found, visible, sync) == [found |-> found, visible |-> visible, sync |-> sync]
DiscoveryEnvs(syncEnvs) ==
    {InitEnv(TRUE, "yes", e) : e \in syncEnvs}
        \cup {InitEnv(FALSE, "yes", CHOOSE e \in syncEnvs : TRUE)}
AddressEnvs(syncEnvs) ==
    {InitEnv(TRUE, "yes", e) : e \in syncEnvs}
        \cup {InitEnv(TRUE, v, CHOOSE e \in syncEnvs : TRUE) : v \in {"no", "error"}}
FewDiscoveryEnvs == DiscoveryEnvs(FewSyncEnvs)
FewAddressEnvs == AddressEnvs(FewSyncEnvs)
AllDiscoveryEnvs == DiscoveryEnvs(AllSyncEnvs)
AllAddressEnvs == AddressEnvs(AllSyncEnvs)
ZoneDiscoveryEnvs == DiscoveryEnvs(ZoneSyncEnvs)
CatalogDiscoveryEnvs == DiscoveryEnvs(CatalogSyncEnvs)

\* what do_play meets on the room's list: the grouping, the ranking and the
\* calls that raise, at most MaxFailures of them
Alone == [d \in Devices |-> d]
Followers == [d \in Devices |-> IF d = "Living" THEN "Kitchen" ELSE d]
FewGroupings == {Alone, Followers}
ByName == [i \in 1..Cardinality(Devices) |-> DeviceNames[i]]
FewRankings == {ByName}

Failures(e) ==
    (IF e.coordFail THEN 1 ELSE 0) + (IF e.queueFail > 0 THEN 1 ELSE 0)
        + Cardinality({p \in DOMAIN e.plan : e.plan[p] # "none"})

\* the list do_play works on for the 'room' keyword, <<>> when it raises
\* before reading it
PlayList(room) ==
    LET r == ResolveRoom(config, GivenRoom(room))
    IN  IF r \in DOMAIN rooms THEN rooms[r] ELSE <<>>

PlayEnv(g, rk, plan, cf, qf) ==
    [group |-> g, rank |-> rk, plan |-> plan, coordFail |-> cf, queueFail |-> qf]

\* the play action for every answer of the network to the calls do_play
\* makes on a list of n players
\* the ranking is asked only when a coordinator leaves two or more players
\* behind, and groups other than the room's never grow during a play
Ranked(g) == \E d \in Devices : Cardinality({x \in Devices \ {d} : g[x] = d}) >= 2

PlayWith(room, it, n, queued, groupings, rankings) ==
    \* line 141 raises: nothing else is called
    \/ /\ n > 0 /\ MaxFailures > 0
       /\ InvokePlay(room, it.given, it.text,
                     PlayEnv(Alone, ByName, [p \in 2..n |-> "none"], TRUE, 0))
    \/ \E g \in (IF n > 1 THEN groupings ELSE {Alone}) :
       \E rk \in (IF n > 1 /\ Ranked(g) THEN rankings ELSE {ByName}),
          plan \in [2..n -> FailureKinds],
          qf \in (IF queued /\ n > 0 THEN 0..3 ELSE {0}) :
           /\ Failures(PlayEnv(g, rk, plan, FALSE, qf)) <= MaxFailures
           /\ InvokePlay(room, it.given, it.text, PlayEnv(g, rk, plan, FALSE, qf))

PlayAny(room, it, groupings, rankings) ==
    /\ last = NoInstance
    /\ PlayWith(room, it, Len(PlayList(room)), it.given /\ favorites # <<>>,
                groupings, rankings)

(***************************************************************************)
(* Spec: the neuron under any sequence of invocations.                     *)
(***************************************************************************)
Next ==
    \/ \E a \in ActionInputs \ {"init"}, r \in RoomInputs : Refuse(a, r, NoIp)
    \/ \E r \in RoomInputs, ip \in Ipv4Inputs \cup {NoIp} : Refuse("init", r, ip)
    \/ \E r \in {"Kitchen", "Down"}, kw \in FewSettings, e \in FewDiscoveryEnvs :
          InvokeInit(r, NoIp, kw, e)
    \/ \E r \in {"Kitchen", "Down"}, ip \in Ipv4Inputs, kw \in FewSettings,
          e \in FewAddressEnvs :
          InvokeInit(r, ip, kw, e)
    \/ \E e \in FewSyncEnvs : InvokeSync(e)
    \/ \E r \in RoomInputs, it \in FewItems : PlayAny(r, it, FewGroupings, FewRankings)
    \/ \E a \in TransportNames, r \in RoomInputs, fails \in BOOLEAN :
          InvokeTransport(a, r, fails)
    \/ Discard

Spec == Init /\ [][Next]_vars

(***************************************************************************)
(* SpecSync: one init with any 'rooms' setting, then syncs, the players    *)
(* that answer chosen freely each time.                                    *)
(***************************************************************************)
Fresh == ~config.set /\ soco = NoSoco

NextSync ==
    \/ /\ Fresh
       /\ \E r \in {"Kitchen", "Down"}, kw \in AllSettings, e \in AllDiscoveryEnvs :
             InvokeInit(r, NoIp, kw, e)
    \/ /\ Fresh
       /\ \E r \in {"Kitchen", "Down"}, kw \in AllSettings, e \in AllAddressEnvs :
             InvokeInit(r, IpKitchenText, kw, e)
    \/ \E e \in AllSyncEnvs : InvokeSync(e)
    \/ Discard

SpecSync == Init /\ [][NextSync]_vars

(***************************************************************************)
(* SpecPlay: one init, then plays under any grouping of the players and    *)
(* any calls raising.                                                      *)
(***************************************************************************)
NextPlay ==
    \/ /\ Fresh
       /\ \E r \in {"Kitchen", "Down"}, kw \in DownSettings, e \in ZoneDiscoveryEnvs :
             InvokeInit(r, NoIp, kw, e)
    \/ \E r \in {NoRoom, "Kitchen", "Down"}, it \in FewItems :
          PlayAny(r, it, Groupings, Rankings)
    \/ Discard

SpecPlay == Init /\ [][NextPlay]_vars

(***************************************************************************)
(* SpecFavorites: one init with any favorites catalog, then plays of any   *)
(* item.                                                                   *)
(***************************************************************************)
NextFavorites ==
    \/ /\ Fresh
       /\ \E kw \in FewSettings, e \in CatalogDiscoveryEnvs :
             InvokeInit("Kitchen", NoIp, kw, e)
    \/ \E r \in {NoRoom, "Down"}, it \in AllItems :
          PlayAny(r, it, FewGroupings, FewRankings)
    \/ Discard

SpecFavorites == Init /\ [][NextFavorites]_vars


(***************************************************************************)
(* The properties.  They read the instance left by the last invocation:    *)
(* its parameters, its outcome and the library calls it made, in order.    *)
(***************************************************************************)
\* the room the last invocation addresses and that room's list
TargetRoom == ResolveRoom(config, GivenRoom(last.room))
RoomKnown == TargetRoom \in DOMAIN rooms
RoomList == PlayList(last.room)

CallsOf(ops) == {i \in DOMAIN last.calls : last.calls[i].op \in ops}
CallsOn(ops, d) == {i \in CallsOf(ops) : last.calls[i].dev = d}
NoneRaised == \A i \in DOMAIN last.calls : ~last.calls[i].raised

GroupingOps == {"group.coordinator", "unjoin", "join"}
QueueOps == {"clear_queue", "add_to_queue", "play_from_queue"}

\* C2: after a successful init, play without an item on a room of the room
\* table completes and issues exactly one resume ('play') command, to the
\* first player of the room, and no queue command.
C2_PlayWithoutItemResumes ==
    (initOk /\ last.action = "play" /\ last.ran /\ ~last.hasItem /\ RoomKnown)
        => /\ last.outcome = "ok"
           /\ Len(RoomList) > 0
           /\ Cardinality(CallsOf({"play"})) = 1
           /\ CallsOn({"play"}, RoomList[1]) = CallsOf({"play"})
           /\ CallsOf(QueueOps) = {}

\* C5: a communication failure of an unjoin or join call during play gives
\* a warning and never ends the action: every member of the room is still
\* worked on and, an item given and the favorites not empty, the queue
\* commands are still issued.
C5_GroupingFailureOnlyWarns ==
    (initOk /\ last.action = "play" /\ last.ran)
        => \A i \in CallsOf({"unjoin", "join"}) :
              last.calls[i].raised
                  => /\ "communication failure" \in last.warnings
                     /\ \A p \in 2..Len(RoomList) :
                           CallsOn(GroupingOps, RoomList[p]) # {}
                     /\ (last.hasItem /\ favorites # <<>>)
                           => CallsOf({"clear_queue"}) # {}

\* C7: after a successful init, pause, stop, next, previous, mute and unmute
\* on a room of the room table issue exactly one command, the action's own,
\* to the first player of the room; on any other room they end with
\* InvalidParameterException and no command; the tables stay as they are.
C7_TransportOneCommand ==
    [][(initOk /\ last'.action \in TransportNames /\ last'.ran)
          => /\ UNCHANGED tables
             /\ IF ResolveRoom(config, GivenRoom(last'.room)) \in DOMAIN rooms
                THEN /\ Len(PlayList(last'.room)) > 0
                     /\ Len(last'.calls) = 1
                     /\ last'.calls[1].op = TransportCommand(last'.action)
                     /\ last'.calls[1].dev = PlayList(last'.room)[1]
                ELSE /\ last'.outcome = "InvalidParameterException"
                     /\ last'.calls = <<>>]_vars

\* C10: an action other than init runs its handler only if an earlier init
\* completed without raising; until then it is refused as uninitialized,
\* with no library call and the tables as they are.
C10_HandlersNeedInit ==
    [][(last'.outcome # "none" /\ last'.action \in ActionNames \ {"init"} /\ ~initOk)
          => /\ ~last'.ran
             /\ last'.outcome = "SonosException"
             /\ "uninitialized neuron" \in last'.warnings
             /\ last'.calls = <<>>
             /\ UNCHANGED tables]_vars

\* C9: an invocation without an action, with an action outside the
\* recognized names, an init without a room, or an init whose ipv4 is a
\* public address (8.8.8.8) or no IPv4 address at all is rejected by
\* validation: MissingParameterException for the missing action,
\* InvalidParameterException otherwise, no handler run, no library call,
\* the handle, the configuration, the tables and the published variables
\* as they are.
BadIpv4Inputs == {IpPublicText, IpOctetText, IpShortText, IpLetterText}
BadParameters(inv) ==
    /\ inv.outcome # "none"
    /\ \/ inv.action = NoAction
       \/ inv.action = "reboot"
       \/ inv.action = "init" /\ inv.room = NoRoom
       \/ inv.action = "init" /\ inv.ipv4 \in BadIpv4Inputs
C9_ValidationRejects ==
    [][BadParameters(last')
          => /\ last'.outcome = IF last'.action = NoAction
                                THEN "MissingParameterException"
                                ELSE "InvalidParameterException"
             /\ ~last'.ran
             /\ last'.calls = <<>>
             /\ UNCHANGED tables]_vars

\* an initialized neuron has rejected an init for 8.8.8.8
C9_Witness ==
    /\ initOk
    /\ soco # NoSoco
    /\ DOMAIN rooms # {}
    /\ last.action = "init"
    /\ last.ipv4 = IpPublicText
    /\ last.room = "Kitchen"
    /\ last.outcome = "InvalidParameterException"


\* the user room configuration R: the names and the members of a name
ConfiguredNames == {config.rooms[i][1] : i \in DOMAIN config.rooms}
ConfiguredMembers(n) ==
    config.rooms[CHOOSE i \in DOMAIN config.rooms : config.rooms[i][1] = n][2]

RECURSIVE Resolving(_, _)
\* the members of a list that name a recorded player, in list order
Resolving(members, known) ==
    IF members = <<>> THEN <<>>
    ELSE IF Head(members) \in known
    THEN <<Head(members)>> \o Resolving(Tail(members), known)
    ELSE Resolving(Tail(members), known)

\* C1: after a sync the names of the room table are the recorded players'
\* names together with the configured names; a configured name that is a
\* player's name is dropped, that player's room keeping the player alone;
\* no collision keeps another configured room out of the table.
C1_RoomNamesAfterSync ==
    (last.synced /\ last.ran)
        => /\ DOMAIN rooms = zones \cup ConfiguredNames
           /\ \A z \in zones : rooms[z] = <<z>>

\* C6: after a sync a configured room whose name is no player's name lists
\* exactly its configured members that name a recorded player, in the
\* configured order; a member that names none is skipped with a warning and
\* the members after it are still looked up.
C6_MembersThatResolve ==
    (last.synced /\ last.ran)
        => \A n \in ConfiguredNames \ zones :
              /\ n \in DOMAIN rooms
              /\ rooms[n] = Resolving(ConfiguredMembers(n), zones)

\* C4 as stated: whatever the room configuration, a sync that records no
\* player leaves the room table empty; an init with such a sync ends in an
\* error, a sync on its own completes.
C4_NoPlayerNoRoom ==
    (last.synced /\ last.ran /\ zones = {})
        => /\ DOMAIN rooms = {}
           /\ last.action = "init" => last.outcome # "ok"
           /\ last.action = "sync" => last.outcome = "ok"

\* C4, amended: a sync that records no player leaves a room table without a
\* player in it: its only names are configured names, each with an empty
\* list, and it is empty when no room is configured; an init with such a
\* sync ends in InvalidParameterException whenever its default room is not
\* among those names; a sync on its own completes.
C4_NoPlayerNoMember ==
    (last.synced /\ last.ran /\ zones = {})
        => /\ DOMAIN rooms \subseteq ConfiguredNames
           /\ \A n \in DOMAIN rooms : rooms[n] = <<>>
           /\ ConfiguredNames = {} => DOMAIN rooms = {}
           /\ (last.action = "init" /\ config.room \notin ConfiguredNames)
                 => last.outcome = "InvalidParameterException"
           /\ (last.action = "init" /\ last.outcome = "ok")
                 => /\ config.room \in DOMAIN rooms
                    /\ rooms[config.room] = <<>>
           /\ last.action = "sync" => last.outcome = "ok"

\* an init for the player at an address has completed although the sync
\* recorded no player: its default room is a configured room, left empty
C4_Witness ==
    /\ last.action = "init"
    /\ last.synced
    /\ last.outcome = "ok"
    /\ zones = {}
    /\ config.room = "Down"
    /\ "Down" \in DOMAIN rooms
    /\ rooms["Down"] = <<>>
    /\ Len(ConfiguredMembers("Down")) > 0


\* a play with an item on a room of the room table that holds a player
PlaysItem == last.action = "play" /\ last.ran /\ last.hasItem /\ Len(RoomList) > 0

\* the last three calls are the queue commands on the player d
QueuedLast(d) ==
    LET c == last.calls
        n == Len(last.calls)
    IN  /\ n >= 3
        /\ c[n - 2].op = "clear_queue" /\ c[n - 2].dev = d
        /\ c[n - 1].op = "add_to_queue" /\ c[n - 1].dev = d
        /\ \E f \in 1..Len(favorites) : favorites[f].ref = c[n - 1].arg
        /\ c[n].op = "play_from_queue" /\ c[n].dev = d /\ c[n].idx = 0
        /\ CallsOf(QueueOps) = {n - 2, n - 1, n}

\* C3 as stated, for a play no call of which raises: one unjoin, k - 1
\* joins, then the three queue commands on the first player of the room.
C3_OneUnjoin ==
    (PlaysItem /\ NoneRaised /\ last.outcome = "ok")
        => /\ Cardinality(CallsOf({"unjoin"})) = 1
           /\ CallsOf({"unjoin"}) = {1}
           /\ last.calls[1].dev = RoomList[1]
           /\ Cardinality(CallsOf({"join"})) = Len(RoomList) - 1
           /\ QueuedLast(RoomList[1])

\* what the member d of the room was asked to do, in the order of the calls
MemberCalls(d) == CallsOn(GroupingOps, d)
AnswersOther(i, d) ==
    /\ last.calls[i].op = "group.coordinator"
    /\ last.calls[i].dev = d
    /\ ~last.calls[i].raised
    /\ last.calls[i].arg # d
AnswersSelf(i, d) ==
    /\ last.calls[i].op = "group.coordinator"
    /\ last.calls[i].dev = d
    /\ ~last.calls[i].raised
    /\ last.calls[i].arg = d
Unjoined(i, d) ==
    /\ last.calls[i].op = "unjoin"
    /\ last.calls[i].dev = d
    /\ ~last.calls[i].raised

\* C3, amended: play with an item on a room of k players first unjoins the
\* first player, the coordinator, once; then, member by member in list
\* order, it asks the member for the coordinator of its group, unjoins the
\* member exactly when the answer is another player, and joins it to the
\* coordinator unless one of the member's calls raised.  That is 1 to k
\* unjoins and at most k - 1 joins, k - 1 joins when no call raises.  Every
\* queue command comes after every unjoin and join, on the coordinator, and
\* a play that completes ends with clear_queue, add_to_queue of a favorite
\* and play_from_queue(0).
C3_UnjoinPerGroupedMember ==
    PlaysItem
        => /\ Len(last.calls) >= 1
           /\ CallsOn({"unjoin"}, RoomList[1]) = {1}
           /\ CallsOn({"join", "group.coordinator"}, RoomList[1]) = {}
           /\ \A i \in CallsOf(GroupingOps) :
                 \E p \in 1..Len(RoomList) : last.calls[i].dev = RoomList[p]
           /\ \A p \in 2..Len(RoomList) :
                 /\ Cardinality(CallsOn({"group.coordinator"}, RoomList[p])) <= 1
                 /\ Cardinality(CallsOn({"unjoin"}, RoomList[p])) <= 1
                 /\ Cardinality(CallsOn({"join"}, RoomList[p])) <= 1
                 /\ ~last.calls[1].raised
                       => Cardinality(CallsOn({"group.coordinator"}, RoomList[p])) = 1
                 /\ \A i \in CallsOn({"group.coordinator"}, RoomList[p]) :
                       /\ AnswersOther(i, RoomList[p])
                             <=> (i + 1) \in CallsOn({"unjoin"}, RoomList[p])
                       /\ AnswersSelf(i, RoomList[p])
                             => (i + 1) \in CallsOn({"join"}, RoomList[p])
                 /\ \A i \in CallsOn({"unjoin"}, RoomList[p]) :
                       /\ i > 1 /\ AnswersOther(i - 1, RoomList[p])
                       /\ ~last.calls[i].raised
                             => (i + 1) \in CallsOn({"join"}, RoomList[p])
                 /\ \A i \in CallsOn({"join"}, RoomList[p]) :
                       /\ last.calls[i].arg = RoomList[1]
                       /\ i > 1
                       /\ \/ AnswersSelf(i - 1, RoomList[p])
                          \/ Unjoined(i - 1, RoomList[p])
                 /\ \A q \in 2..Len(RoomList) :
                       p < q => \A i \in MemberCalls(RoomList[p]),
                                   j \in MemberCalls(RoomList[q]) : i < j
           /\ Cardinality(CallsOf({"unjoin"})) \in 1..Len(RoomList)
           /\ Cardinality(CallsOf({"join"})) <= Len(RoomList) - 1
           /\ NoneRaised => Cardinality(CallsOf({"join"})) = Len(RoomList) - 1
           /\ \A i \in CallsOf(GroupingOps), j \in CallsOf(QueueOps) : i < j
           /\ \A j \in CallsOf(QueueOps) : last.calls[j].dev = RoomList[1]
           /\ last.outcome = "ok" => QueuedLast(RoomList[1])

\* a play on a room of three players has completed with two unjoins, the
\* coordinator's and that of a member grouped elsewhere, and two joins
C3_Witness ==
    /\ PlaysItem
    /\ last.outcome = "ok"
    /\ NoneRaised
    /\ Len(RoomList) = 3
    /\ Cardinality(CallsOf({"unjoin"})) = 2
    /\ Cardinality(CallsOf({"join"})) = 2
    /\ \E i \in CallsOf({"group.coordinator"}) :
          last.calls[i].arg = last.calls[i].dev
    /\ QueuedLast(RoomList[1])

\* the favorites with the highest similarity to the item
BestTitles(item) ==
    {favorites[i].title : i \in
        {i \in 1..Len(favorites) :
            \A j \in 1..Len(favorites) :
                ~RatioLess(Ratio(item, favorites[i].title),
                           Ratio(item, favorites[j].title))}}
TitlesOf(ref) ==
    {favorites[i].title : i \in {i \in 1..Len(favorites) : favorites[i].ref = ref}}

\* C8: the favorite a play with an item enqueues is the reference the
\* favorites table holds under a title whose similarity ratio to the item is
\* the highest of all titles; with the titles "Jazz Radio" and "Jazz FM"
\* and the item "jazz radio" it is the reference of "Jazz Radio".
C8_BestMatchEnqueued ==
    (last.action = "play" /\ last.ran /\ last.hasItem)
        => \A i \in CallsOf({"add_to_queue"}) :
              /\ TitlesOf(last.calls[i].arg) \cap BestTitles(last.item) # {}
              /\ (last.item = ItemJazzRadio
                    /\ {favorites[f].title : f \in 1..Len(favorites)}
                          = {TitleJazzRadio, TitleJazzFM})
                    => last.calls[i].arg = "ref1"

\* "jazz radio" has been played from the favorites "Jazz FM", "Jazz Radio"
C8_Witness ==
    /\ last.action = "play"
    /\ last.hasItem
    /\ last.item = ItemJazzRadio
    /\ last.outcome = "ok"
    /\ Len(favorites) = 2
    /\ favorites[1].title = TitleJazzFM
    /\ favorites[2].title = TitleJazzRadio
    /\ \E i \in CallsOf({"add_to_queue"}) : last.calls[i].arg = "ref1"

=============================================================================
